---------------------------- MODULE Spec2Model ----------------------------
(***************************************************************************)
(* Model of copy_logs_from_k8s.py: the sequential orchestration of main()  *)
(* (selection parsing, pod listing, per-source / per-pod / per-file        *)
(* copying) and, separately, the byte-level behaviour of one streaming     *)
(* copy (copy_file_from_pod_exec) against a child process that writes to   *)
(* bounded pipes.                                                          *)
(*                                                                         *)
(* Python strings are modelled as sequences of one-character strings, so   *)
(* that split / strip / substring search / path arithmetic are computed    *)
(* rather than assumed.                                                    *)
(***************************************************************************)
EXTENDS Naturals, Integers, Sequences, FiniteSets, TLC

(***************************************************************************)
(* Bounds of the model                                                     *)
(***************************************************************************)
MaxTokens == 3      \* comma-separated tokens in the --sources argument
MaxPods == 2        \* items in the pod listing
MaxFiles == 2       \* files printed by one remote find
MaxOut == 2         \* bytes the remote cat writes to its standard output
MaxErr == 3         \* bytes the remote process writes to its standard error
PipeCap == 2        \* capacity of an OS pipe, in bytes
MaxOld == 1         \* bytes of a local file left by an earlier run

(***************************************************************************)
(* String helpers (Python str semantics)                                   *)
(***************************************************************************)
None == <<>>        \* None and "" are both falsy; the code only tests truthiness

Min(S) == CHOOSE x \in S : \A y \in S : x <= y
Max(S) == CHOOSE x \in S : \A y \in S : x >= y

\* sub in s
Contains(s, sub) ==
    \E i \in 0..(Len(s) - Len(sub)) : SubSeq(s, i + 1, i + Len(sub)) = sub

IsSpace(c) == c \in {" ", "\t", "\n", "\r"}

\* s.strip()
Strip(s) ==
    LET keep == {i \in 1..Len(s) : ~IsSpace(s[i])}
    IN  IF keep = {} THEN <<>> ELSE SubSeq(s, Min(keep), Max(keep))

\* s.split(sep) for a one-character separator: always at least one piece
RECURSIVE Split(_, _)
Split(s, sep) ==
    LET cuts == {i \in 1..Len(s) : s[i] = sep}
    IN  IF cuts = {} THEN <<s>>
        ELSE LET i == Min(cuts)
             IN  <<SubSeq(s, 1, i - 1)>> \o Split(SubSeq(s, i + 1, Len(s)), sep)

\* s.splitlines(): like split on newline, but a final newline opens no empty line
Splitlines(s) ==
    IF s = <<>> THEN <<>>
    ELSE LET parts == Split(s, "\n")
         IN  IF parts[Len(parts)] = <<>> THEN SubSeq(parts, 1, Len(parts) - 1)
             ELSE parts

\* sep.join(parts)
RECURSIVE Join(_, _)
Join(parts, sep) ==
    IF parts = <<>> THEN <<>>
    ELSE IF Len(parts) = 1 THEN parts[1]
    ELSE parts[1] \o sep \o Join(Tail(parts), sep)

Range(f) == {f[i] : i \in DOMAIN f}

SeqsUpTo(S, n) == UNION {[1..k -> S] : k \in 0..n}

DistinctSeqsUpTo(S, n) ==
    {q \in SeqsUpTo(S, n) : \A i, j \in DOMAIN q : q[i] = q[j] => i = j}

(***************************************************************************)
(* pathlib.Path, as the sequence of its parts below the root               *)
(***************************************************************************)
\* Path(s) for an absolute or relative s: empty and "." segments collapse
PathParts(s) ==
    SelectSeq(Split(s, "/"), LAMBDA seg : seg # <<>> /\ seg # <<".">>)

\* str(p) for an absolute path
PathStr(parts) == IF parts = <<>> THEN <<"/">> ELSE <<"/">> \o Join(parts, <<"/">>)

\* p.relative_to(base); find prints only paths below the directory it is given
RelativeTo(parts, base) == SubSeq(parts, Len(base) + 1, Len(parts))

\* p.parent
Parent(parts) == IF parts = <<>> THEN <<>> ELSE SubSeq(parts, 1, Len(parts) - 1)

\* p.name
Name(parts) == IF parts = <<>> THEN <<>> ELSE parts[Len(parts)]

(***************************************************************************)
(* Program constants                                                       *)
(***************************************************************************)
TIKV_LOG_DIR == <<"/", "v", "a", "r", "/", "l", "i", "b", "/", "t", "i", "k", "v", "/", "l", "o", "g">>
TIFLASH_LOG_DIR == <<"/", "d", "a", "t", "a", "0", "/", "l", "o", "g", "s">>
S3CLEAN_LOG == <<"/", "t", "m", "p", "/", "s", "3", "c", "l", "e", "a", "n", ".", "l", "o", "g">>

tikv == <<"t", "i", "k", "v">>
tiflash == <<"t", "i", "f", "l", "a", "s", "h">>
s3clean == <<"s", "3", "c", "l", "e", "a", "n">>
tikv_worker == <<"t", "i", "k", "v", "-", "w", "o", "r", "k", "e", "r">>
tiflash_minio == <<"t", "i", "f", "l", "a", "s", "h", "-", "m", "i", "n", "i", "o">>
serverlog == <<"s", "e", "r", "v", "e", "r", "l", "o", "g">>

AVAILABLE_SOURCES == <<tikv, tiflash, s3clean>>

\* faulty variant: the "not in" halves of the predicates left out
pod_predicate_drop_exclusion(source_name, name) ==
    Contains(name, source_name)

\* the lambdas stored in LogSource.pod_predicate, by source name
pod_predicate(source_name, name) ==
    IF source_name = tikv THEN Contains(name, tikv) /\ ~Contains(name, tikv_worker)
    ELSE IF source_name = tiflash
         THEN Contains(name, tiflash) /\ ~Contains(name, tiflash_minio)
    ELSE IF source_name = s3clean THEN Contains(name, s3clean)
    ELSE FALSE

\* faulty variant: a registry in which tiflash was appended after s3clean
sources_reordered ==
    << [name |-> tikv, log_dir |-> TIKV_LOG_DIR, single_file |-> None,
        container |-> None, dest_name |-> None, use_exec_copy |-> FALSE],
       [name |-> s3clean, log_dir |-> None, single_file |-> S3CLEAN_LOG,
        container |-> None, dest_name |-> None, use_exec_copy |-> FALSE],
       [name |-> tiflash, log_dir |-> TIFLASH_LOG_DIR, single_file |-> None,
        container |-> serverlog, dest_name |-> None, use_exec_copy |-> TRUE] >>

\* the list built in main()
sources ==
    << [name |-> tikv, log_dir |-> TIKV_LOG_DIR, single_file |-> None,
        container |-> None, dest_name |-> None, use_exec_copy |-> FALSE],
       [name |-> tiflash, log_dir |-> TIFLASH_LOG_DIR, single_file |-> None,
        container |-> serverlog, dest_name |-> None, use_exec_copy |-> TRUE],
       [name |-> s3clean, log_dir |-> None, single_file |-> S3CLEAN_LOG,
        container |-> None, dest_name |-> None, use_exec_copy |-> FALSE] >>

\* Path.cwd(): the directory the tool is started in
base_dir == <<<<"w">>>>

(***************************************************************************)
(* Inputs: what the user types and what the cluster answers                *)
(***************************************************************************)
RawTokens ==
    { tikv, <<" ", "t", "i", "k", "v">>, <<"t", "i", "f", "l", "a", "s", "h", " ">>,
      s3clean, <<"b", "a", "d">>, <<>> }

\* values of --sources: 1..MaxTokens raw tokens joined by commas
SourcesArgs == {Join(q, <<",">>) : q \in SeqsUpTo(RawTokens, MaxTokens) \ {<<>>}}

\* items of "kubectl get pods -o json": metadata.name present or absent
PodNames ==
    { <<"t", "i", "k", "v", "-", "0">>,
      <<"t", "i", "k", "v", "-", "w", "o", "r", "k", "e", "r", "-", "1">>,
      <<"o", "t", "h", "e", "r", "-", "p", "o", "d">>,
      <<"t", "i", "f", "l", "a", "s", "h", "-", "m", "i", "n", "i", "o", "-", "0">>,
      <<"t", "i", "f", "l", "a", "s", "h", "-", "s", "3", "c", "l", "e", "a", "n", "-", "0">>,
      <<"s", "3", "c", "l", "e", "a", "n", "-", "0">> }

PodItems ==
    {[has_name |-> TRUE, name |-> n] : n \in PodNames}
        \cup {[has_name |-> FALSE, name |-> <<>>]}

PodListings == DistinctSeqsUpTo(PodItems, MaxPods)

\* files below a log directory: depth zero, nested, and a name with a colon
RelFiles ==
    { <<"/", "c", ".", "l", "o", "g">>,
      <<"/", "s", "u", "b", "/", "b", ".", "l", "o", "g">>,
      <<"/", "a", ":", "1", ".", "l", "o", "g">> }

\* standard output of "find log_dir -type f -print": one path per line
FindOutputs(log_dir) ==
    { Join([i \in DOMAIN q |-> log_dir \o q[i] \o <<"\n">>], <<>>) :
        q \in DistinctSeqsUpTo(RelFiles, MaxFiles) }

(***************************************************************************)
(* State                                                                   *)
(***************************************************************************)
VARIABLES
    pc,                \* position in main() and its callees
    args_sources,      \* args.sources, until the comprehension at line 168 reads it
    selected_sources,  \* set of names
    pod_names_all,     \* result of list_pods()
    src_idx,           \* position of "for source in sources"
    pods,              \* process_source: the filtered pod names
    pod_idx,           \* position of "for pod_name in pods"
    files,             \* copy_log_dir_from_pod: the enumerated files
    file_idx,          \* position of "for file_path in files"
    count,             \* value returned by copy_log_dir_from_pod, -1 before it returns
    dirs,              \* directories below the working directory
    local_files,       \* files below the working directory
    calls,             \* every external command started so far, in order
    exit_code,         \* value returned by main(), -1 while it runs
    e_pc,              \* streaming copy: position in copy_file_from_pod_exec
    local_file,        \* streaming copy: the file at local_path
    proc,              \* streaming copy: the child process
    stdout_pipe,       \* streaming copy: bytes in the child's stdout pipe
    stderr_pipe,       \* streaming copy: number of bytes in the child's stderr pipe
    stderr,            \* streaming copy: number of bytes read from proc.stderr
    returncode         \* streaming copy: proc.wait(), -1 before it returns

main_vars ==
    <<pc, args_sources, selected_sources, pod_names_all, src_idx, pods, pod_idx,
      files, file_idx, count, dirs, local_files, calls, exit_code>>

exec_vars == <<e_pc, local_file, proc, stdout_pipe, stderr_pipe, stderr, returncode>>

vars == <<main_vars, exec_vars>>

NoProc ==
    [state |-> "none", out_all |-> <<>>, out_left |-> <<>>, err_left |-> 0,
     pending |-> "idle", rc |-> 0]

ExecIdle ==
    /\ e_pc = "idle"
    /\ local_file = [exists |-> FALSE, data |-> <<>>]
    /\ proc = NoProc
    /\ stdout_pipe = <<>>
    /\ stderr_pipe = 0
    /\ stderr = 0
    /\ returncode = -1

Init ==
    /\ pc = "parse_args"
    /\ args_sources = None
    /\ selected_sources = {}
    /\ pod_names_all = <<>>
    /\ src_idx = 1
    /\ pods = <<>>
    /\ pod_idx = 1
    /\ files = <<>>
    /\ file_idx = 1
    /\ count = -1
    /\ dirs = {}
    /\ local_files = {}
    /\ calls = <<>>
    /\ exit_code = -1
    /\ ExecIdle

(***************************************************************************)
(* Callees of main(), as operators                                         *)
(***************************************************************************)
Call(verb, source, pod, container, remote, local, use_exec, ok) ==
    [verb |-> verb, source |-> source, pod |-> pod, container |-> container,
     remote |-> remote, local |-> local, use_exec |-> use_exec, ok |-> ok]

\* the set comprehension of main()
parse_selection(s) == {Strip(t) : t \in Range(Split(s, ","))} \ {<<>>}

\* faulty variant: the "if not selected_sources" test left out
selection_exit_no_empty_check(selected) ==
    IF selected \ Range(AVAILABLE_SOURCES) # {} THEN 2 ELSE 0

\* the two early returns of main(): 2, or 0 for "go on"
selection_exit(selected) ==
    IF selected \ Range(AVAILABLE_SOURCES) # {} THEN 2
    ELSE IF selected = {} THEN 2
    ELSE 0

\* list_pods(): the names out of the parsed JSON
list_pods_names(items) ==
    [i \in DOMAIN items |-> IF items[i].has_name THEN items[i].name ELSE <<>>]

\* list_log_files(): the lines of the command's output
list_log_files_lines(output) ==
    LET lines == Splitlines(output)
        stripped == [i \in DOMAIN lines |-> Strip(lines[i])]
    IN  SelectSeq(stripped, LAMBDA l : l # <<>>)

\* Path.mkdir(parents=True, exist_ok=True) below the working directory
Mkdir(ds, parts) ==
    ds \cup {PathStr(SubSeq(parts, 1, k)) : k \in (Len(base_dir) + 1)..Len(parts)}

\* dest_dir = base_dir / pod_name
pod_dest_dir(pod_name) == base_dir \o PathParts(pod_name)

\* faulty variant: no mkdir in process_source
process_source_no_mkdir(ds, pod_name) == ds

\* dest_dir.mkdir(parents=True, exist_ok=True) in process_source
process_source_mkdir(ds, pod_name) == Mkdir(ds, pod_dest_dir(pod_name))

\* the pods process_source works on
process_source_pods(source, names) ==
    SelectSeq(names, LAMBDA n : pod_predicate(source.name, n))

\* faulty variant: the test for ':' left out
copy_strategy_flag_only(remote_path, use_exec) ==
    IF use_exec THEN "cat" ELSE "cp"

\* copy_file_from_pod: "cat" is copy_file_from_pod_exec, "cp" is kubectl cp
copy_strategy(remote_path, use_exec) ==
    IF use_exec \/ Contains(remote_path, <<":">>) THEN "cat" ELSE "cp"

\* faulty variant: every file lands directly in dest_dir
target_file_flat(file_path, log_dir, dest_dir) ==
    dest_dir \o <<Name(RelativeTo(PathParts(file_path), PathParts(log_dir)))>>

\* copy_log_dir_from_pod: where one enumerated file goes
target_file(file_path, log_dir, dest_dir) ==
    LET rel_path == RelativeTo(PathParts(file_path), PathParts(log_dir))
        target_dir == dest_dir \o Parent(rel_path)
    IN  target_dir \o <<Name(rel_path)>>

\* copy_single_file_from_pod: dest_dir / (dest_name or Path(remote_path).name)
single_dest_path(remote_path, dest_dir, dest_name) ==
    dest_dir \o PathParts(IF dest_name # None THEN dest_name
                          ELSE Name(PathParts(remote_path)))

\* copy_file_from_pod: one external command.  The streaming copy opens the
\* local file before it learns the exit status; what kubectl cp leaves behind
\* when it fails is its own business (left).
CopyFileFromPod(source, pod_name, remote_path, local_path, ok, left) ==
    LET verb == copy_strategy(remote_path, source.use_exec_copy)
    IN  /\ calls' = Append(calls, Call(verb, source.name, pod_name, source.container,
                                        remote_path, PathStr(local_path),
                                        source.use_exec_copy, ok))
        /\ local_files' =
              IF verb = "cat" \/ ok \/ left
              THEN local_files \cup {PathStr(local_path)}
              ELSE local_files

\* faulty variant: the error is swallowed and the next pod is tried
OnCommandFailure_skip_pod ==
    /\ pc' = "pod"
    /\ pod_idx' = pod_idx + 1
    /\ UNCHANGED exit_code

\* except RuntimeError around the loop over sources
OnCommandFailure ==
    /\ pc' = "done"
    /\ exit_code' = 1
    /\ UNCHANGED pod_idx

\* if source.single_file, after the log_dir part of process_source
AfterLogDir(source) ==
    IF source.single_file # None
    THEN pc' = "single" /\ UNCHANGED pod_idx
    ELSE pc' = "pod" /\ pod_idx' = pod_idx + 1

(***************************************************************************)
(* main(), one action per step                                             *)
(***************************************************************************)
Source == sources[src_idx]

\* args = parse_args(): the user's --sources value (or the default)
ParseArgs ==
    /\ pc = "parse_args"
    /\ \E s \in SourcesArgs : args_sources' = s
    /\ pc' = "select"
    /\ UNCHANGED <<selected_sources, pod_names_all, src_idx, pods, pod_idx, files,
                   file_idx, count, dirs, local_files, calls, exit_code, exec_vars>>

\* selected_sources, unknown_sources and the two "return 2"
Select ==
    /\ pc = "select"
    /\ selected_sources' = parse_selection(args_sources)
    /\ LET code == selection_exit(selected_sources')
       IN  IF code # 0
           THEN pc' = "done" /\ exit_code' = code
           ELSE pc' = "list_pods" /\ UNCHANGED exit_code
    /\ args_sources' = None
    /\ UNCHANGED <<pod_names_all, src_idx, pods, pod_idx, files, file_idx, count,
                   dirs, local_files, calls, exec_vars>>

\* pod_names_all = list_pods(), or "return 1"
ListPods ==
    /\ pc = "list_pods"
    /\ \/ \E items \in PodListings :
             /\ pod_names_all' = list_pods_names(items)
             /\ calls' = Append(calls, Call("get", None, None, None, None, None,
                                             FALSE, TRUE))
             /\ pc' = "sources"
             /\ UNCHANGED exit_code
       \/ /\ calls' = Append(calls, Call("get", None, None, None, None, None,
                                          FALSE, FALSE))
          /\ pc' = "done"
          /\ exit_code' = 1
          /\ UNCHANGED pod_names_all
    /\ UNCHANGED <<args_sources, selected_sources, src_idx, pods, pod_idx, files,
                   file_idx, count, dirs, local_files, exec_vars>>

\* for source in sources: if source.name in selected_sources: process_source(...)
\* up to "for pod_name in pods"; after the last source, "return 0"
NextSource ==
    /\ pc = "sources"
    /\ IF src_idx > Len(sources)
       THEN /\ pc' = "done"
            /\ exit_code' = 0
            /\ UNCHANGED <<src_idx, pods, pod_idx>>
       ELSE IF Source.name \in selected_sources
                 /\ process_source_pods(Source, pod_names_all) # <<>>
       THEN /\ pods' = process_source_pods(Source, pod_names_all)
            /\ pod_idx' = 1
            /\ pc' = "pod"
            /\ UNCHANGED <<src_idx, exit_code>>
       ELSE /\ src_idx' = src_idx + 1
            /\ UNCHANGED <<pc, pods, pod_idx, exit_code>>
    /\ UNCHANGED <<args_sources, selected_sources, pod_names_all, files, file_idx,
                   count, dirs, local_files, calls, exec_vars>>

\* for pod_name in pods: dest_dir = base_dir / pod_name; dest_dir.mkdir(...)
NextPod ==
    /\ pc = "pod"
    /\ IF pod_idx > Len(pods)
       THEN /\ pc' = "sources"
            /\ src_idx' = src_idx + 1
            /\ UNCHANGED dirs
       ELSE /\ dirs' = process_source_mkdir(dirs, pods[pod_idx])
            /\ pc' = IF Source.log_dir # None THEN "list_files" ELSE "after_dir"
            /\ UNCHANGED src_idx
    /\ count' = -1
    /\ UNCHANGED <<args_sources, selected_sources, pod_names_all, pods, pod_idx,
                   files, file_idx, local_files, calls, exit_code, exec_vars>>

\* copy_log_dir_from_pod: files = list_log_files(...); if not files: return 0
ListLogFiles ==
    /\ pc = "list_files"
    /\ \/ \E output \in FindOutputs(Source.log_dir) :
             /\ files' = list_log_files_lines(output)
             /\ calls' = Append(calls, Call("find", Source.name, pods[pod_idx],
                                             Source.container, Source.log_dir, None,
                                             FALSE, TRUE))
             /\ file_idx' = 1
             /\ IF files' = <<>>
                THEN count' = 0 /\ pc' = "after_dir"
                ELSE count' = -1 /\ pc' = "copy_file"
             /\ UNCHANGED <<pod_idx, exit_code>>
       \/ /\ calls' = Append(calls, Call("find", Source.name, pods[pod_idx],
                                          Source.container, Source.log_dir, None,
                                          FALSE, FALSE))
          /\ OnCommandFailure
          /\ UNCHANGED <<files, file_idx, count>>
    /\ UNCHANGED <<args_sources, selected_sources, pod_names_all, src_idx, pods,
                   dirs, local_files, exec_vars>>

\* copy_log_dir_from_pod: one round of "for file_path in files", and
\* "return len(files)" after the last one
CopyLogFile ==
    /\ pc = "copy_file"
    /\ LET file_path == files[file_idx]
           dest_dir == pod_dest_dir(pods[pod_idx])
           target == target_file(file_path, Source.log_dir, dest_dir)
       IN  /\ dirs' = Mkdir(dirs, Parent(target))
           /\ \E ok \in BOOLEAN, left \in BOOLEAN :
                 /\ CopyFileFromPod(Source, pods[pod_idx], file_path, target, ok, left)
                 /\ IF ok
                    THEN /\ file_idx' = file_idx + 1
                         /\ IF file_idx = Len(files)
                            THEN count' = Len(files) /\ pc' = "after_dir"
                            ELSE UNCHANGED <<count, pc>>
                         /\ UNCHANGED <<pod_idx, exit_code>>
                    ELSE /\ OnCommandFailure
                         /\ UNCHANGED <<file_idx, count>>
    /\ UNCHANGED <<args_sources, selected_sources, pod_names_all, src_idx, pods,
                   files, exec_vars>>

\* process_source: "if count: print(...)" and "if source.single_file:"
AfterLogDirStep ==
    /\ pc = "after_dir"
    /\ AfterLogDir(Source)
    /\ UNCHANGED <<args_sources, selected_sources, pod_names_all, src_idx, pods,
                   files, file_idx, count, dirs, local_files, calls, exit_code,
                   exec_vars>>

\* process_source: dest_path = copy_single_file_from_pod(...)
CopySingleFile ==
    /\ pc = "single"
    /\ LET dest_dir == pod_dest_dir(pods[pod_idx])
           dest_path == single_dest_path(Source.single_file, dest_dir, Source.dest_name)
       IN  \E ok \in BOOLEAN, left \in BOOLEAN :
              /\ CopyFileFromPod(Source, pods[pod_idx], Source.single_file, dest_path,
                                 ok, left)
              /\ IF ok
                 THEN pc' = "pod" /\ pod_idx' = pod_idx + 1 /\ UNCHANGED exit_code
                 ELSE OnCommandFailure
    /\ UNCHANGED <<args_sources, selected_sources, pod_names_all, src_idx, pods,
                   files, file_idx, count, dirs, exec_vars>>

Next ==
    \/ ParseArgs
    \/ Select
    \/ ListPods
    \/ NextSource
    \/ NextPod
    \/ ListLogFiles
    \/ CopyLogFile
    \/ AfterLogDirStep
    \/ CopySingleFile

Spec == Init /\ [][Next]_vars

(***************************************************************************)
(* copy_file_from_pod_exec, byte by byte: the copier and the child process *)
(* "kubectl exec pod -- cat remote_path" joined by two bounded pipes       *)
(***************************************************************************)
MainIdle ==
    /\ pc = "idle"
    /\ args_sources = None
    /\ selected_sources = {}
    /\ pod_names_all = <<>>
    /\ src_idx = 1
    /\ pods = <<>>
    /\ pod_idx = 1
    /\ files = <<>>
    /\ file_idx = 1
    /\ count = -1
    /\ dirs = {}
    /\ local_files = {}
    /\ calls = <<>>
    /\ exit_code = -1

\* the remote file's content
RemoteData == [i \in 1..MaxOut |-> i]

\* what an earlier run may have left at local_path
OldFiles ==
    {[exists |-> FALSE, data |-> <<>>]}
        \cup {[exists |-> TRUE, data |-> [i \in 1..n |-> 0]] : n \in 1..MaxOld}

InitExec ==
    /\ MainIdle
    /\ e_pc = "popen"
    /\ local_file \in OldFiles
    /\ proc = NoProc
    /\ stdout_pipe = <<>>
    /\ stderr_pipe = 0
    /\ stderr = 0
    /\ returncode = -1

\* proc = subprocess.Popen(cmd, stdout=PIPE, stderr=PIPE): the child starts.
\* How much of the file it manages to print, how much it complains on its
\* standard error and how it exits are up to the cluster.
ExecPopen ==
    /\ e_pc = "popen"
    /\ \E n \in 0..MaxOut, m \in 0..MaxErr, rc \in {0, 1} :
          proc' = [state |-> "running", out_all |-> SubSeq(RemoteData, 1, n),
                   out_left |-> SubSeq(RemoteData, 1, n), err_left |-> m,
                   pending |-> "idle", rc |-> rc]
    /\ e_pc' = "open"
    /\ UNCHANGED <<local_file, stdout_pipe, stderr_pipe, stderr, returncode, main_vars>>

\* with open(local_path, "wb") as handle: created or truncated
ExecOpen ==
    /\ e_pc = "open"
    /\ local_file' = [exists |-> TRUE, data |-> <<>>]
    /\ e_pc' = "copyfileobj"
    /\ UNCHANGED <<proc, stdout_pipe, stderr_pipe, stderr, returncode, main_vars>>

\* shutil.copyfileobj(proc.stdout, handle): one read that returns data
ExecCopyChunk ==
    /\ e_pc = "copyfileobj"
    /\ stdout_pipe # <<>>
    /\ local_file' = [local_file EXCEPT !.data = @ \o stdout_pipe]
    /\ stdout_pipe' = <<>>
    /\ UNCHANGED <<e_pc, proc, stderr_pipe, stderr, returncode, main_vars>>

\* shutil.copyfileobj: the read that returns end-of-stream; the with block ends
ExecCopyEof ==
    /\ e_pc = "copyfileobj"
    /\ stdout_pipe = <<>>
    /\ proc.state = "exited"
    /\ e_pc' = "close"
    /\ UNCHANGED <<local_file, proc, stdout_pipe, stderr_pipe, stderr, returncode,
                   main_vars>>

\* proc.stdout.close()
ExecClose ==
    /\ e_pc = "close"
    /\ e_pc' = "read_stderr"
    /\ UNCHANGED <<local_file, proc, stdout_pipe, stderr_pipe, stderr, returncode,
                   main_vars>>

\* stderr = proc.stderr.read(): one read that returns data
ExecStderrChunk ==
    /\ e_pc = "read_stderr"
    /\ stderr_pipe > 0
    /\ stderr' = stderr + stderr_pipe
    /\ stderr_pipe' = 0
    /\ UNCHANGED <<e_pc, local_file, proc, stdout_pipe, returncode, main_vars>>

\* stderr = proc.stderr.read(): end-of-stream
ExecStderrEof ==
    /\ e_pc = "read_stderr"
    /\ stderr_pipe = 0
    /\ proc.state = "exited"
    /\ e_pc' = "wait"
    /\ UNCHANGED <<local_file, proc, stdout_pipe, stderr_pipe, stderr, returncode,
                   main_vars>>

\* returncode = proc.wait()
ExecWait ==
    /\ e_pc = "wait"
    /\ proc.state = "exited"
    /\ returncode' = proc.rc
    /\ e_pc' = "check"
    /\ UNCHANGED <<local_file, proc, stdout_pipe, stderr_pipe, stderr, main_vars>>

\* faulty variant: the local file is removed when the child failed
ExecCheck_unlink ==
    /\ e_pc = "check"
    /\ IF returncode # 0
       THEN e_pc' = "raised" /\ local_file' = [exists |-> FALSE, data |-> <<>>]
       ELSE e_pc' = "returned" /\ UNCHANGED local_file
    /\ UNCHANGED <<proc, stdout_pipe, stderr_pipe, stderr, returncode, main_vars>>

\* if returncode != 0: raise RuntimeError(...)
ExecCheck ==
    /\ e_pc = "check"
    /\ e_pc' = IF returncode # 0 THEN "raised" ELSE "returned"
    /\ UNCHANGED <<local_file, proc, stdout_pipe, stderr_pipe, stderr, returncode,
                   main_vars>>

\* the child decides what it does next: a write to one of its two streams
ProcPick ==
    /\ proc.state = "running"
    /\ proc.pending = "idle"
    /\ \E op \in {"out", "err"} :
          /\ op = "out" => proc.out_left # <<>>
          /\ op = "err" => proc.err_left > 0
          /\ proc' = [proc EXCEPT !.pending = op]
    /\ UNCHANGED <<e_pc, local_file, stdout_pipe, stderr_pipe, stderr, returncode,
                   main_vars>>

\* write(1, ...): blocks while the pipe is full
ProcWriteOut ==
    /\ proc.state = "running"
    /\ proc.pending = "out"
    /\ Len(stdout_pipe) < PipeCap
    /\ stdout_pipe' = Append(stdout_pipe, Head(proc.out_left))
    /\ proc' = [proc EXCEPT !.out_left = Tail(@), !.pending = "idle"]
    /\ UNCHANGED <<e_pc, local_file, stderr_pipe, stderr, returncode, main_vars>>

\* write(2, ...): blocks while the pipe is full
ProcWriteErr ==
    /\ proc.state = "running"
    /\ proc.pending = "err"
    /\ stderr_pipe < PipeCap
    /\ stderr_pipe' = stderr_pipe + 1
    /\ proc' = [proc EXCEPT !.err_left = @ - 1, !.pending = "idle"]
    /\ UNCHANGED <<e_pc, local_file, stdout_pipe, stderr, returncode, main_vars>>

\* the child exits, which closes the write ends of both pipes
ProcExit ==
    /\ proc.state = "running"
    /\ proc.pending = "idle"
    /\ proc.out_left = <<>>
    /\ proc.err_left = 0
    /\ proc' = [proc EXCEPT !.state = "exited"]
    /\ UNCHANGED <<e_pc, local_file, stdout_pipe, stderr_pipe, stderr, returncode,
                   main_vars>>

NextExec ==
    \/ ExecPopen
    \/ ExecOpen
    \/ ExecCopyChunk
    \/ ExecCopyEof
    \/ ExecClose
    \/ ExecStderrChunk
    \/ ExecStderrEof
    \/ ExecWait
    \/ ExecCheck
    \/ ProcPick
    \/ ProcWriteOut
    \/ ProcWriteErr
    \/ ProcExit

SpecExec == InitExec /\ [][NextExec]_vars

(***************************************************************************)
(* Properties                                                              *)
(***************************************************************************)
\* the registry as the specification states it
RegistryNames == {tikv, tiflash, s3clean}

RegistryRank(n) == IF n = tikv THEN 1 ELSE IF n = tiflash THEN 2 ELSE 3

\* s contains sub, compared character by character
HasSub(s, sub) ==
    \E i \in 1..(Len(s) - Len(sub) + 1) : \A k \in 1..Len(sub) : s[i + k - 1] = sub[k]

StatedPredicate(source_name, p) ==
    \/ source_name = tikv /\ HasSub(p, tikv) /\ ~HasSub(p, tikv_worker)
    \/ source_name = tiflash /\ HasSub(p, tiflash) /\ ~HasSub(p, tiflash_minio)
    \/ source_name = s3clean /\ HasSub(p, s3clean)

MatchedBySelection(p) == \E n \in selected_sources : StatedPredicate(n, p)

\* <base>/<podName>
StatedPodDir(p) == <<"/", "w", "/">> \o p

IsPrefix(a, b) == Len(a) <= Len(b) /\ SubSeq(b, 1, Len(a)) = a

PodCalls == {i \in DOMAIN calls : calls[i].verb # "get"}

CopyCalls == {i \in DOMAIN calls : calls[i].verb \in {"cp", "cat"}}

\* split on commas, tokens trimmed, empty tokens dropped, deduplicated
StatedSelection(s) == {Strip(t) : t \in Range(Split(s, ","))} \ {<<>>}

\* C1: a --sources value whose parsed selection is empty or names a source
\* outside the registry ends main with exit code 2, with no external command
\* invoked and no directory or file created.
C1_InvalidSelectionExits2 ==
    [][ (pc = "select"
          /\ LET sel == StatedSelection(args_sources)
             IN  sel = {} \/ sel \ RegistryNames # {})
        => (pc' = "done" /\ exit_code' = 2 /\ calls' = <<>> /\ dirs' = {}
              /\ local_files' = {}) ]_vars

C1_Witness ==
    pc = "done" /\ exit_code = 2 /\ selected_sources = {} /\ calls = <<>>

\* C2: the first failed external command is the last command of the run, the
\* run ends with exit code 1, and whatever the commands of the run wrote (the
\* pod directories, the copied files, the partial file of a failed streaming
\* copy) is still on disk.
C2_FailureAbortsRun ==
    \A i \in DOMAIN calls :
        /\ ~calls[i].ok => i = Len(calls) /\ pc = "done" /\ exit_code = 1
        /\ calls[i].verb # "get" => StatedPodDir(calls[i].pod) \in dirs
        /\ (calls[i].verb = "cat" \/ (calls[i].verb = "cp" /\ calls[i].ok))
              => calls[i].local \in local_files

C2_Witness ==
    /\ pc = "done"
    /\ exit_code = 1
    /\ Len(calls) >= 4
    /\ ~calls[Len(calls)].ok
    /\ calls[Len(calls)].verb = "find"
    /\ local_files # {}

\* C3: external commands are issued in registry order tikv, tiflash, s3clean,
\* and only for selected sources.
C3_RegistryOrder ==
    /\ \A i \in PodCalls : calls[i].source \in selected_sources
    /\ \A i, j \in PodCalls :
          i < j => RegistryRank(calls[i].source) <= RegistryRank(calls[j].source)

C3_Witness ==
    /\ pc = "done"
    /\ exit_code = 0
    /\ {calls[i].source : i \in PodCalls} = {tikv, tiflash, s3clean}

\* C4: a copy streams (kubectl exec ... cat) iff use_exec is true or the
\* remote path contains ':', and is a kubectl cp otherwise.
C4_StrategyRule ==
    \A i \in CopyCalls :
        calls[i].verb = "cat" <=> (calls[i].use_exec \/ HasSub(calls[i].remote, <<":">>))

C4_Witness ==
    /\ \E i \in CopyCalls :
          calls[i].verb = "cat" /\ ~calls[i].use_exec
    /\ \E i \in CopyCalls :
          calls[i].verb = "cat" /\ calls[i].use_exec /\ ~HasSub(calls[i].remote, <<":">>)
    /\ \E i \in CopyCalls : calls[i].verb = "cp"

\* C5: after a run without failures, a pod of the listing has its directory
\* <base>/<podName> and has had per-pod commands issued iff it satisfies the
\* predicate of a selected source; nothing is created outside those directories.
C5_OnlyMatchedPods ==
    (pc = "done" /\ exit_code = 0) =>
        /\ \A p \in Range(pod_names_all) :
              /\ StatedPodDir(p) \in dirs <=> MatchedBySelection(p)
              /\ (\E i \in PodCalls : calls[i].pod = p) <=> MatchedBySelection(p)
        /\ \A d \in dirs \cup local_files :
              \E p \in Range(pod_names_all) :
                  MatchedBySelection(p) /\ IsPrefix(StatedPodDir(p), d)

C5_Witness ==
    /\ pc = "done"
    /\ exit_code = 0
    /\ \E p \in Range(pod_names_all) : HasSub(p, tikv_worker)
    /\ \E p \in Range(pod_names_all) : MatchedBySelection(p)
    /\ tikv \in selected_sources
    /\ dirs # {}

\* the copies copy_log_dir_from_pod has started for the pod at hand
LogDirCopies ==
    SelectSeq(calls, LAMBDA c : /\ c.verb \in {"cp", "cat"}
                                /\ c.source = Source.name
                                /\ c.pod = pods[pod_idx])

\* the log_dir prefix replaced by <base>/<podName>
StatedTarget(file_path, log_dir, pod) ==
    StatedPodDir(pod) \o SubSeq(file_path, Len(log_dir) + 1, Len(file_path))

\* C6: copy_log_dir_from_pod copies the enumerated files once each, in
\* enumeration order, each to <dest> plus its path below log_dir, and returns
\* their number when nothing fails.
C6_MirroredCopies ==
    (pc \in {"copy_file", "after_dir"} /\ Source.log_dir # None) =>
        LET copies == LogDirCopies
        IN  /\ \A k \in DOMAIN copies :
                  /\ k <= Len(files)
                  /\ copies[k].remote = files[k]
                  /\ copies[k].local =
                        StatedTarget(files[k], Source.log_dir, pods[pod_idx])
            /\ pc = "copy_file" => Len(copies) = file_idx - 1 /\ count = -1
            /\ pc = "after_dir" => Len(copies) = Len(files) /\ count = Len(files)

C6_Witness ==
    /\ pc = "after_dir"
    /\ count = 2
    /\ \E k \in DOMAIN files : HasSub(files[k], <<"/", "s", "u", "b", "/">>)
    /\ \E k \in DOMAIN files : ~HasSub(files[k], <<"/", "s", "u", "b", "/">>)

\* C7 as stated: a directory <base>/<podName> exists only if a file copy into
\* it has been started.
C7_LazyPodDir ==
    \A p \in Range(pod_names_all) :
        StatedPodDir(p) \in dirs => \E i \in CopyCalls : calls[i].pod = p

\* C7 as amended: the directory of a matched pod is made before its files
\* are enumerated, so it exists for every enumeration issued, also one that
\* fails or finds nothing; the directories below it exist only once a copy
\* into them has started.
C7_EagerPodDir ==
    /\ \A i \in DOMAIN calls :
          calls[i].verb = "find" => StatedPodDir(calls[i].pod) \in dirs
    /\ \A d \in dirs :
          \/ \E p \in Range(pod_names_all) : d = StatedPodDir(p) /\ MatchedBySelection(p)
          \/ \E i \in CopyCalls : IsPrefix(d \o <<"/">>, calls[i].local)

C7_Witness ==
    /\ pc = "after_dir"
    /\ Source.log_dir # None
    /\ count = 0
    /\ StatedPodDir(pods[pod_idx]) \in dirs
    /\ \A i \in CopyCalls : calls[i].pod # pods[pod_idx]

\* C8: the exit status of a streaming copy is known only after the local file
\* was created or truncated and everything the child printed was written to
\* it; a nonzero status makes the copy fail, and the file, partial or full,
\* is still there.
C8_StatusAfterWrite ==
    /\ returncode # -1 =>
          /\ local_file.exists
          /\ local_file.data = proc.out_all
          /\ stdout_pipe = <<>>
    /\ e_pc \in {"raised", "returned"} =>
          /\ returncode # -1
          /\ (e_pc = "raised" <=> returncode # 0)
          /\ local_file.exists
          /\ local_file.data = proc.out_all

C8_Witness ==
    /\ e_pc = "raised"
    /\ local_file.exists
    /\ local_file.data # <<>>
    /\ Len(local_file.data) < MaxOut

\* C9 as stated: no pod is processed by two different sources.
C9_OneSourcePerPod ==
    \A i, j \in PodCalls :
        calls[i].pod = calls[j].pod => calls[i].source = calls[j].source

\* C9 as amended: a source processes only pods that satisfy its predicate, so
\* two sources write into one pod's directory only when the pod's name
\* satisfies both predicates, and they do so one after the other.
C9_SharedOnlyWhenBothMatch ==
    /\ \A i \in PodCalls : StatedPredicate(calls[i].source, calls[i].pod)
    /\ \A i \in PodCalls :
          (i + 1 \in DOMAIN calls /\ calls[i + 1].source # calls[i].source)
              => \A j \in PodCalls : j > i => calls[j].source # calls[i].source

C9_Witness ==
    \E i, j \in PodCalls :
        calls[i].pod = calls[j].pod /\ calls[i].source # calls[j].source

\* C10: the copier never waits for end-of-stream on the child's standard
\* output while the child is blocked writing to a full standard-error pipe.
C10_NoPipeDeadlock ==
    ~ ( /\ e_pc = "copyfileobj"
        /\ stdout_pipe = <<>>
        /\ proc.state = "running"
        /\ proc.pending = "err"
        /\ stderr_pipe = PipeCap )

====
